---- MODULE Spec2Model ----
(***************************************************************************)
(* Model of limitMessagesToTokenCount (src/unnamed/part_000): the message  *)
(* truncation that fits a conversation and its tool definitions into a     *)
(* token budget.  One call of the function is one behaviour: Init draws    *)
(* the arguments, the actions are the statements of the function body.     *)
(*                                                                         *)
(* Arrays are JavaScript objects: `heap` maps an array address to its      *)
(* elements, and the elements of a message array are message ids (the      *)
(* index of the message object in msgObj), so that aliasing and in-place   *)
(* mutation (reverse, unshift) are visible.                                *)
(*                                                                         *)
(* A text is represented by the sequence of pieces the tokenizer splits    *)
(* it into; the tokenizer itself (tiktoken) is external.                   *)
(***************************************************************************)
EXTENDS Integers, Sequences, FiniteSets, TLC

\* ---------------------------------------------------------------- bounds
MaxLen == 3
MaxBudget == 6
MaxNegBudget == 1

\* ------------------------------------------------------------ input space
Roles == {"system", "user", "assistant"}

NoContent == [defined |-> FALSE, text |-> <<>>]

Contents ==
  { NoContent,
    [defined |-> TRUE, text |-> <<"hi">>],
    [defined |-> TRUE, text |-> <<"hello", "there", "friend">>] }

Message == [role : Roles, content : Contents]

ToolCollections == { <<>>, <<"search">> }

Models == { "gpt-4", "unknown-model-xyz" }

NotPassed == [passed |-> FALSE, val |-> 0]

MaxTokensArgs ==
  { NotPassed } \cup { [passed |-> TRUE, val |-> v] : v \in (0 - MaxNegBudget)..MaxBudget }

\* ------------------------------------------------------------- model table
DEFAULT_MAX_TOKENS == 128000

maxTokensByModel(m) ==
  CASE m = "gpt-4o" -> 128000
    [] m = "gpt-4o-2024-05-13" -> 128000
    [] m = "gpt-4-turbo" -> 128000
    [] m = "gpt-4-turbo-2024-04-09" -> 128000
    [] m = "gpt-4-0125-preview" -> 128000
    [] m = "gpt-4-turbo-preview" -> 128000
    [] m = "gpt-4-1106-preview" -> 128000
    [] m = "gpt-4-vision-preview" -> 128000
    [] m = "gpt-4-1106-vision-preview" -> 128000
    [] m = "gpt-4-32k" -> 32768
    [] m = "gpt-4-32k-0613" -> 32768
    [] m = "gpt-4-32k-0314" -> 32768
    [] m = "gpt-4" -> 8192
    [] m = "gpt-4-0613" -> 8192
    [] m = "gpt-4-0314" -> 8192
    [] m = "gpt-3.5-turbo-0125" -> 16385
    [] m = "gpt-3.5-turbo" -> 16385
    [] m = "gpt-3.5-turbo-1106" -> 16385
    [] m = "gpt-3.5-turbo-instruct" -> 4096
    [] m = "gpt-3.5-turbo-16k" -> 16385
    [] m = "gpt-3.5-turbo-0613" -> 4096
    [] m = "gpt-3.5-turbo-16k-0613" -> 16385
    [] m = "gpt-3.5-turbo-0301" -> 4097
    [] OTHER -> 0   \* undefined: falsy

\* maxTokensByModel[model] || DEFAULT_MAX_TOKENS
maxTokensForOpenAIModel(m) ==
  IF maxTokensByModel(m) # 0 THEN maxTokensByModel(m) ELSE DEFAULT_MAX_TOKENS

\* maxTokens ||= maxTokensForOpenAIModel(model): undefined and 0 are falsy
ResolveMaxTokens(arg, m) ==
  IF arg.passed /\ arg.val # 0 THEN arg.val ELSE maxTokensForOpenAIModel(m)

\* ---------------------------------------------------------------- tokenizer
\* encoding_for_model(model) throws for a model it does not know
KnownTiktokenModels == { "gpt-4", "gpt-4o", "gpt-3.5-turbo" }

EncodingForModel(m) ==
  IF m \in {"gpt-4o"} THEN "o200k_base" ELSE "cl100k_base"

\* enc.encode(text): the token sequence of a text
Encode(enc, text) == text

\* try { encoding_for_model(model) } catch { encoding_for_model("gpt-4o") }
countTokens(m, text) ==
  LET enc == IF m \in KnownTiktokenModels
             THEN EncodingForModel(m)
             ELSE EncodingForModel("gpt-4o")
  IN Len(Encode(enc, text))

\* message.content || ""
ContentOrEmpty(msg) ==
  IF msg.content.defined /\ msg.content.text # <<>> THEN msg.content.text ELSE <<>>

countMessageTokens(m, msg) == countTokens(m, ContentOrEmpty(msg))

RECURSIVE JoinTools(_)
JoinTools(ts) ==
  IF Len(ts) = 0 THEN <<>>
  ELSE IF Len(ts) = 1 THEN <<ts[1]>>
  ELSE <<ts[1], ",">> \o JoinTools(Tail(ts))

\* JSON.stringify(tools): one combined text for the whole collection
JSONStringify(ts) == <<"[">> \o JoinTools(ts) \o <<"]">>

countToolsTokens(m, ts) ==
  IF Len(ts) = 0 THEN 0 ELSE countTokens(m, JSONStringify(ts))

\* ------------------------------------------------------------ array helpers
RECURSIVE Reverse(_)
Reverse(s) == IF s = <<>> THEN <<>> ELSE Append(Reverse(Tail(s)), Head(s))

Unshift_Push(arr, x) == Append(arr, x)

\* arr.unshift(x)
Unshift(arr, x) == <<x>> \o arr

SpreadTarget_Alias(src, fresh) == src

\* [...messages] builds a fresh array; the address the .reverse() works on
SpreadTarget(src, fresh) == fresh

ToolsExceed_OffByOne(t, b) == t >= b

\* toolsNumTokens > maxTokens
ToolsExceed(t, b) == t > b

SystemOverBudget_OffByOne(b) == b <= 0

\* maxTokens < 0
SystemOverBudget(b) == b < 0

DoesNotFit_OffByOne(b, n) == b <= n

\* maxTokens < numTokens
DoesNotFit(b, n) == b < n

\* -------------------------------------------------------------------- state
VARIABLES
  msgObj,           \* the message objects, by id (the caller's history order)
  heap,             \* array address -> elements
  messages,         \* address of the caller's messages array
  tools,            \* the caller's tool collection
  model,            \* the model argument
  maxTokensArg,     \* the maxTokens argument as passed
  maxTokens,        \* the parameter maxTokens, reassigned by the body
  result,           \* address of result (0: not yet allocated)
  reversedMessages, \* address of reversedMessages (0: not yet built)
  toolsNumTokens,
  cutoff,
  idx,              \* position of the running for-of loop
  counted,          \* ids of the messages countMessageTokens was called on
  pc,
  thrown,           \* the error the call failed with
  returned          \* address of the returned array (0: none)

vars == << msgObj, heap, messages, tools, model, maxTokensArg, maxTokens, result,
           reversedMessages, toolsNumTokens, cutoff, idx, counted, pc, thrown,
           returned >>

Ids(n) == [k \in 1..n |-> k]

Init ==
  /\ \E n \in 0..MaxLen : msgObj \in [1..n -> Message]
  /\ messages = 1
  /\ heap = (1 :> Ids(Len(msgObj)))
  /\ tools \in ToolCollections
  /\ model \in Models
  /\ maxTokensArg \in MaxTokensArgs
  /\ maxTokens = 0
  /\ result = 0
  /\ reversedMessages = 0
  /\ toolsNumTokens = 0
  /\ cutoff = FALSE
  /\ idx = 0
  /\ counted = {}
  /\ pc = "start"
  /\ thrown = "none"
  /\ returned = 0

args == << msgObj, messages, tools, model, maxTokensArg >>

\* lines 9-12: resolve the budget, allocate result, count the tools
Resolve ==
  /\ pc = "start"
  /\ maxTokens' = ResolveMaxTokens(maxTokensArg, model)
  /\ result' = 2
  /\ heap' = heap @@ (2 :> <<>>)
  /\ toolsNumTokens' = countToolsTokens(model, tools)
  /\ pc' = "tools"
  /\ UNCHANGED << args, reversedMessages, cutoff, idx, counted, thrown, returned >>

\* lines 13-15: the tools alone exceed the budget
ThrowToolsTooLarge ==
  /\ pc = "tools"
  /\ ToolsExceed(toolsNumTokens, maxTokens)
  /\ thrown' = "ToolsTooLarge"
  /\ pc' = "threw"
  /\ UNCHANGED << args, heap, maxTokens, result, reversedMessages, toolsNumTokens,
                  cutoff, idx, counted, returned >>

\* line 16: reserve for the tools, enter the system scan
ReserveTools ==
  /\ pc = "tools"
  /\ ~ToolsExceed(toolsNumTokens, maxTokens)
  /\ maxTokens' = maxTokens - toolsNumTokens
  /\ idx' = 1
  /\ pc' = "scan"
  /\ UNCHANGED << args, heap, result, reversedMessages, toolsNumTokens, cutoff,
                  counted, thrown, returned >>

\* lines 18-19: a non-system message is passed over by the scan
ScanSkip ==
  /\ pc = "scan"
  /\ idx <= Len(heap[messages])
  /\ msgObj[heap[messages][idx]].role # "system"
  /\ idx' = idx + 1
  /\ UNCHANGED << args, heap, maxTokens, result, reversedMessages, toolsNumTokens,
                  cutoff, counted, pc, thrown, returned >>

\* lines 19-22, 26: a system message is counted and reserved for
ReserveSystem ==
  /\ pc = "scan"
  /\ idx <= Len(heap[messages])
  /\ LET id == heap[messages][idx]
         numTokens == countMessageTokens(model, msgObj[id])
     IN /\ msgObj[id].role = "system"
        /\ ~SystemOverBudget(maxTokens - numTokens)
        /\ counted' = counted \cup {id}
        /\ maxTokens' = maxTokens - numTokens
  /\ idx' = idx + 1
  /\ UNCHANGED << args, heap, result, reversedMessages, toolsNumTokens, cutoff,
                  pc, thrown, returned >>

\* lines 19-25: the system messages exceed what is left of the budget
ThrowInsufficientSystemBudget ==
  /\ pc = "scan"
  /\ idx <= Len(heap[messages])
  /\ LET id == heap[messages][idx]
         numTokens == countMessageTokens(model, msgObj[id])
     IN /\ msgObj[id].role = "system"
        /\ SystemOverBudget(maxTokens - numTokens)
        /\ counted' = counted \cup {id}
        /\ maxTokens' = maxTokens - numTokens
  /\ thrown' = "InsufficientSystemBudget"
  /\ pc' = "threw"
  /\ UNCHANGED << args, heap, result, reversedMessages, toolsNumTokens, cutoff,
                  idx, returned >>

\* lines 29-31: cutoff = false; reversedMessages = [...messages].reverse()
StartSelection ==
  /\ pc = "scan"
  /\ idx > Len(heap[messages])
  /\ cutoff' = FALSE
  /\ reversedMessages' = SpreadTarget(messages, 3)
  /\ heap' = [a \in DOMAIN heap \cup {SpreadTarget(messages, 3)} |->
                IF a = SpreadTarget(messages, 3)
                THEN Reverse(heap[messages])
                ELSE heap[a]]
  /\ idx' = 1
  /\ pc' = "select"
  /\ UNCHANGED << args, maxTokens, result, toolsNumTokens, counted, thrown,
                  returned >>

KeepSystem_UnlessCutoff ==
  /\ pc = "select"
  /\ idx <= Len(heap[reversedMessages])
  /\ LET id == heap[reversedMessages][idx]
     IN /\ msgObj[id].role = "system"
        /\ heap' = IF cutoff THEN heap ELSE [heap EXCEPT ![result] = Unshift(@, id)]
  /\ idx' = idx + 1
  /\ UNCHANGED << args, maxTokens, result, reversedMessages, toolsNumTokens,
                  cutoff, counted, pc, thrown, returned >>

\* lines 33-35: a system message is always kept
KeepSystem ==
  /\ pc = "select"
  /\ idx <= Len(heap[reversedMessages])
  /\ LET id == heap[reversedMessages][idx]
     IN /\ msgObj[id].role = "system"
        /\ heap' = [heap EXCEPT ![result] = Unshift(@, id)]
  /\ idx' = idx + 1
  /\ UNCHANGED << args, maxTokens, result, reversedMessages, toolsNumTokens,
                  cutoff, counted, pc, thrown, returned >>

\* lines 36-38: after the cutoff a non-system message is dropped uncounted
SkipAfterCutoff ==
  /\ pc = "select"
  /\ idx <= Len(heap[reversedMessages])
  /\ msgObj[heap[reversedMessages][idx]].role # "system"
  /\ cutoff
  /\ idx' = idx + 1
  /\ UNCHANGED << args, heap, maxTokens, result, reversedMessages, toolsNumTokens,
                  cutoff, counted, pc, thrown, returned >>

SetCutoff_Charges ==
  /\ pc = "select"
  /\ idx <= Len(heap[reversedMessages])
  /\ LET id == heap[reversedMessages][idx]
         numTokens == countMessageTokens(model, msgObj[id])
     IN /\ msgObj[id].role # "system"
        /\ ~cutoff
        /\ DoesNotFit(maxTokens, numTokens)
        /\ counted' = counted \cup {id}
        /\ maxTokens' = maxTokens - numTokens
  /\ cutoff' = TRUE
  /\ idx' = idx + 1
  /\ UNCHANGED << args, heap, result, reversedMessages, toolsNumTokens,
                  pc, thrown, returned >>

SetCutoff_Forgets ==
  /\ pc = "select"
  /\ idx <= Len(heap[reversedMessages])
  /\ LET id == heap[reversedMessages][idx]
     IN /\ msgObj[id].role # "system"
        /\ ~cutoff
        /\ DoesNotFit(maxTokens, countMessageTokens(model, msgObj[id]))
        /\ counted' = counted \cup {id}
  /\ cutoff' = FALSE
  /\ idx' = idx + 1
  /\ UNCHANGED << args, heap, maxTokens, result, reversedMessages, toolsNumTokens,
                  pc, thrown, returned >>

\* lines 39-43: the first message that does not fit sets the cutoff
SetCutoff ==
  /\ pc = "select"
  /\ idx <= Len(heap[reversedMessages])
  /\ LET id == heap[reversedMessages][idx]
     IN /\ msgObj[id].role # "system"
        /\ ~cutoff
        /\ DoesNotFit(maxTokens, countMessageTokens(model, msgObj[id]))
        /\ counted' = counted \cup {id}
  /\ cutoff' = TRUE
  /\ idx' = idx + 1
  /\ UNCHANGED << args, heap, maxTokens, result, reversedMessages, toolsNumTokens,
                  pc, thrown, returned >>

KeepMessage_NoCharge ==
  /\ pc = "select"
  /\ idx <= Len(heap[reversedMessages])
  /\ LET id == heap[reversedMessages][idx]
         numTokens == countMessageTokens(model, msgObj[id])
     IN /\ msgObj[id].role # "system"
        /\ ~cutoff
        /\ ~DoesNotFit(maxTokens, numTokens)
        /\ counted' = counted \cup {id}
        /\ heap' = [heap EXCEPT ![result] = Unshift(@, id)]
        /\ maxTokens' = maxTokens
  /\ idx' = idx + 1
  /\ UNCHANGED << args, result, reversedMessages, toolsNumTokens, cutoff, pc,
                  thrown, returned >>

\* lines 39-45: a message that fits is kept and charged
KeepMessage ==
  /\ pc = "select"
  /\ idx <= Len(heap[reversedMessages])
  /\ LET id == heap[reversedMessages][idx]
         numTokens == countMessageTokens(model, msgObj[id])
     IN /\ msgObj[id].role # "system"
        /\ ~cutoff
        /\ ~DoesNotFit(maxTokens, numTokens)
        /\ counted' = counted \cup {id}
        /\ heap' = [heap EXCEPT ![result] = Unshift(@, id)]
        /\ maxTokens' = maxTokens - numTokens
  /\ idx' = idx + 1
  /\ UNCHANGED << args, result, reversedMessages, toolsNumTokens, cutoff, pc,
                  thrown, returned >>

\* line 48: return result
Return ==
  /\ pc = "select"
  /\ idx > Len(heap[reversedMessages])
  /\ returned' = result
  /\ pc' = "done"
  /\ UNCHANGED << args, heap, maxTokens, result, reversedMessages, toolsNumTokens,
                  cutoff, idx, counted, thrown >>

Next ==
  \/ Resolve
  \/ ThrowToolsTooLarge
  \/ ReserveTools
  \/ ScanSkip
  \/ ReserveSystem
  \/ ThrowInsufficientSystemBudget
  \/ StartSelection
  \/ KeepSystem
  \/ SkipAfterCutoff
  \/ SetCutoff
  \/ KeepMessage
  \/ Return

Spec == Init /\ [][Next]_vars

\* ------------------------------------------------------- vocabulary of the claims
Input == Ids(Len(msgObj))

Output == heap[returned]

Kept == IF result = 0 THEN <<>> ELSE heap[result]

IsSystem(id) == msgObj[id].role = "system"

IsNonSystem(id) == msgObj[id].role # "system"

SystemOf(s) == SelectSeq(s, IsSystem)

NonSystemOf(s) == SelectSeq(s, IsNonSystem)

Elems(s) == { s[k] : k \in 1..Len(s) }

Cost(id) == countMessageTokens(model, msgObj[id])

RECURSIVE SumCost(_)
SumCost(s) == IF s = <<>> THEN 0 ELSE Cost(Head(s)) + SumCost(Tail(s))

ToolCost == countToolsTokens(model, tools)

Budget == ResolveMaxTokens(maxTokensArg, model)

Suffix(s, k) == SubSeq(s, k, Len(s))

\* non-system messages that were counted and not kept: the cutoff trigger
Failed == { id \in counted : IsNonSystem(id) /\ id \notin Elems(Kept) }

\* what is left for the non-system messages
Remaining == Budget - ToolCost - SumCost(SystemOf(Input))

\* the longest suffix of s whose cumulative cost is at most r
LongestFittingSuffix(s, r) ==
  LET starts == { k \in 1..(Len(s) + 1) : SumCost(Suffix(s, k)) <= r }
  IN Suffix(s, CHOOSE k \in starts : \A j \in starts : k <= j)

\* C1: on normal return the kept non-system messages are a contiguous suffix
\* of the input's non-system messages, and once a non-system message failed
\* to fit no older non-system message is kept.
C1_SuffixContiguity ==
  /\ pc = "done" =>
       \E k \in 1..(Len(NonSystemOf(Input)) + 1) :
          NonSystemOf(Output) = Suffix(NonSystemOf(Input), k)
  /\ \A f \in Failed : \A id \in Elems(Input) :
       (IsNonSystem(id) /\ id < f) => id \notin Elems(Kept)

C1_Witness ==
  /\ pc = "done"
  /\ \E f \in Failed : \E id \in Elems(Input) :
       /\ IsNonSystem(id) /\ id < f
       /\ Cost(id) > 0 /\ Cost(id) <= maxTokens
       /\ id \notin Elems(Output)

\* C2: on normal return every system message of the input is in the output
\* exactly once, in the input's relative order.
C2_SystemCompleteness ==
  pc = "done" => SystemOf(Output) = SystemOf(Input)

C2_Witness ==
  /\ pc = "done"
  /\ cutoff
  /\ Len(SystemOf(Output)) >= 2
  /\ \E s \in Elems(Output) : \E d \in Elems(Input) :
       IsSystem(s) /\ s < d /\ d \notin Elems(Output)
  /\ \E s \in Elems(Output) : IsSystem(s) /\ s > 1

\* C3: on normal return the output is a subsequence of the input: only input
\* messages, each at most once, in the input's relative order.
C3_Subsequence ==
  pc = "done" =>
    /\ Elems(Output) \subseteq Elems(Input)
    /\ \A a, b \in 1..Len(Output) : a < b => Output[a] < Output[b]

C3_Witness ==
  /\ pc = "done"
  /\ Len(Output) >= 2
  /\ Len(Output) < Len(Input)

\* C4: the budget in force after line 9 is maxTokens whenever the caller
\* passed an integer, and the model's ceiling only when it was not passed.
C4_BudgetIsMaxTokensWhenPassed ==
  pc = "tools" =>
    maxTokens = IF maxTokensArg.passed
                THEN maxTokensArg.val
                ELSE maxTokensForOpenAIModel(model)

\* C5: when the tool cost plus the cost of all messages is at most the
\* resolved budget the call does not fail and returns the input sequence.
C5_NoOpWhenBudgetSuffices ==
  (ToolCost + SumCost(Input) <= Budget) =>
    /\ pc # "threw"
    /\ ~cutoff
    /\ pc = "done" => Output = Input

C5_Witness ==
  /\ pc = "done"
  /\ maxTokensArg.passed
  /\ ToolCost > 0
  /\ ToolCost + SumCost(Input) = Budget
  /\ Len(Input) >= 2
  /\ Cost(Input[1]) > 0
  /\ Output = Input

\* C6: when the tool cost exceeds the resolved budget the call fails with
\* ToolsTooLarge before any message is counted or emitted; when the tool
\* cost is within the budget that error is never raised.
C6_FailFastOnTools ==
  /\ (pc # "start" /\ ToolCost > Budget) =>
       /\ pc \in {"tools", "threw"}
       /\ pc = "threw" => thrown = "ToolsTooLarge"
  /\ thrown = "ToolsTooLarge" =>
       /\ ToolCost > Budget
       /\ counted = {}
       /\ Kept = <<>>
       /\ returned = 0
       /\ reversedMessages = 0

C6_Witness ==
  /\ pc = "threw"
  /\ thrown = "ToolsTooLarge"
  /\ maxTokensArg.passed /\ maxTokensArg.val > 0
  /\ Len(Input) >= 2

\* C7: given the tools fit, the call fails with InsufficientSystemBudget iff
\* the total cost of the system messages exceeds the budget left after the
\* tools, and it fails in the scan, before any non-system message is counted
\* or any message emitted.
C7_FailFastOnSystem ==
  /\ (pc \in {"done", "threw"} /\ ToolCost <= Budget) =>
       (thrown = "InsufficientSystemBudget"
          <=> SumCost(SystemOf(Input)) > Budget - ToolCost)
  /\ (pc \in {"select", "done"}) =>
       SumCost(SystemOf(Input)) <= Budget - ToolCost
  /\ thrown = "InsufficientSystemBudget" =>
       /\ ToolCost <= Budget
       /\ \A id \in counted : IsSystem(id)
       /\ Kept = <<>>
       /\ reversedMessages = 0
       /\ returned = 0

C7_Witness ==
  /\ pc = "threw"
  /\ thrown = "InsufficientSystemBudget"
  /\ Cardinality(counted) >= 2
  /\ \E id \in Elems(Input) : IsNonSystem(id) /\ id < idx /\ Cost(id) > 0

\* C8: no step of the call changes the caller's messages array, any message
\* object or the tools collection, and the returned array is not the input
\* array.
C8_ArgumentsNotMutated ==
  /\ [][ /\ heap'[messages] = heap[messages]
         /\ messages' = messages
         /\ msgObj' = msgObj
         /\ tools' = tools ]_vars
  /\ [](pc = "done" => returned # messages)

C8_Witness ==
  /\ pc = "done"
  /\ Len(Input) >= 2
  /\ Len(Output) >= 1
  /\ heap[reversedMessages] # heap[messages]
  /\ heap[messages] = Input

\* C9: on normal return the kept non-system messages are the longest suffix
\* of the input's non-system messages whose cumulative cost is at most R
\* (budget minus tool cost minus system cost); throughout the selection the
\* counter equals R minus the cost of the kept non-system messages, so the
\* message that triggers the cutoff is not charged.
C9_LongestFittingSuffix ==
  /\ pc = "done" =>
       NonSystemOf(Output) = LongestFittingSuffix(NonSystemOf(Input), Remaining)
  /\ pc \in {"select", "done"} =>
       maxTokens = Remaining - SumCost(NonSystemOf(Kept))

C9_Witness ==
  /\ pc = "done"
  /\ cutoff
  /\ NonSystemOf(Output) # <<>>
  /\ maxTokens > 0
  /\ \E f \in Failed : Cost(f) > maxTokens

\* C10: on normal return the tool cost plus the cost of the output is within
\* the resolved budget, and the counter is never negative during the
\* selection.
C10_OutputWithinBudget ==
  /\ pc = "done" => ToolCost + SumCost(Output) <= Budget
  /\ pc \in {"select", "done"} => maxTokens >= 0

C10_Witness ==
  /\ pc = "done"
  /\ ToolCost > 0
  /\ cutoff
  /\ Len(Output) >= 2
  /\ ToolCost + SumCost(Output) = Budget

====
